---- MODULE Spec2Model ----
(***************************************************************************)
(* A model of src/app/api/summarize/route.ts: the YouTube video-identifier *)
(* extractor (extractYouTubeVideoId) and the POST handler that sequences   *)
(* the metadata call and the language-model call.                          *)
(*                                                                         *)
(* URL strings are sequences of one-character strings, so that includes,   *)
(* split, match and test work on characters as the JavaScript code does.   *)
(* Content strings (title, description, prompts) are run-length encoded,   *)
(* <<[c |-> char, n |-> count], ...>>, so that the 60000-character limit    *)
(* of the handler keeps its real value.                                    *)
(***************************************************************************)
EXTENDS Integers, Sequences, FiniteSets, TLC

VARIABLES
    pc,             \* position of the handler / of the extractor call
    body,           \* what req.json() yields for this request
    videoUrl,       \* const videoUrl (line 41), a JSON value
    locale,         \* const locale (line 41), a JSON value
    videoId,        \* what extractYouTubeVideoId returned: [threw, value]
    contentSource,  \* the template string of line 76 before trimming ('' if none)
    transcriptText, \* let transcriptText (lines 59, 76, 97)
    userContent,    \* messages[1].content as sent (line 112)
    calls,          \* the outbound calls issued so far, in order
    metaOutcome,    \* how the metadata call ended
    llmOutcome,     \* how the language-model call ended
    responses,      \* the responses the handler returned, in order
    escaped         \* TRUE when an exception left the handler

vars == <<pc, body, videoUrl, locale, videoId, contentSource, transcriptText,
          userContent, calls, metaOutcome, llmOutcome, responses, escaped>>

---------------------------------------------------------------------------
(* Characters *)

LowerChars == {"a","b","c","d","e","f","g","h","i","j","k","l","m","n","o","p","q","r","s","t","u","v","w","x","y","z"}
UpperChars == {"A","B","C","D","E","F","G","H","I","J","K","L","M","N","O","P","Q","R","S","T","U","V","W","X","Y","Z"}
DigitChars == {"0","1","2","3","4","5","6","7","8","9"}

\* the character class [a-zA-Z0-9_-] of lines 222 and 233
IdChars == LowerChars \cup UpperChars \cup DigitChars \cup {"_", "-"}

\* the quantifier {11} of lines 222 and 233
ID_LENGTH == 11

\* the character class [?#&] of lines 190, 208, 216
Delimiters == {"?", "#", "&"}

---------------------------------------------------------------------------
(* JSON / JavaScript values: [t |-> type, v |-> characters] *)

Str(s) == [t |-> "string", v |-> s]
Undefined == [t |-> "undefined", v |-> <<>>]
Null == [t |-> "null", v |-> <<>>]
Num(s) == [t |-> "number", v |-> s]

\* JavaScript !x for the values above
Falsy(x) ==
    \/ x.t \in {"undefined", "null"}
    \/ x.t = "string" /\ x.v = <<>>
    \/ x.t = "number" /\ x.v = <<"0">>

---------------------------------------------------------------------------
(* String primitives on character sequences *)

Min(a, b) == IF a < b THEN a ELSE b

\* String.prototype.indexOf, 1-based; 0 when sep does not occur
IndexOf(s, sep) ==
    LET hits == {i \in 1..(Len(s) - Len(sep) + 1) : SubSeq(s, i, i + Len(sep) - 1) = sep}
    IN IF hits = {} THEN 0 ELSE CHOOSE i \in hits : \A j \in hits : i <= j

\* String.prototype.includes
Includes(s, sep) == IndexOf(s, sep) # 0

\* String.prototype.split with a non-empty string separator
RECURSIVE Split(_, _)
Split(s, sep) ==
    LET i == IndexOf(s, sep)
    IN IF i = 0 THEN <<s>>
       ELSE <<SubSeq(s, 1, i - 1)>> \o Split(SubSeq(s, i + Len(sep), Len(s)), sep)

\* 1-based index of the first character of s that is in D; 0 when none
FirstIn(s, D) ==
    LET hits == {i \in 1..Len(s) : s[i] \in D}
    IN IF hits = {} THEN 0 ELSE CHOOSE i \in hits : \A j \in hits : i <= j

\* String.prototype.split with a character-class regex such as /[?#&]/
RECURSIVE SplitChars(_, _)
SplitChars(s, D) ==
    LET i == FirstIn(s, D)
    IN IF i = 0 THEN <<s>>
       ELSE <<SubSeq(s, 1, i - 1)>> \o SplitChars(SubSeq(s, i + 1, Len(s)), D)

\* the regex engine matching [a-zA-Z0-9_-]{k} at position i: one character at a time
RECURSIVE MatchClassAt(_, _, _)
MatchClassAt(s, i, k) ==
    IF k = 0 THEN TRUE
    ELSE IF i > Len(s) THEN FALSE
    ELSE IF s[i] \notin IdChars THEN FALSE
    ELSE MatchClassAt(s, i + 1, k - 1)

\* url.match(/([a-zA-Z0-9_-]{11})/): the engine tries each start position from
\* the left; the result is [found, group1]
RECURSIVE RegexMatchFrom(_, _)
RegexMatchFrom(s, i) ==
    IF i > Len(s) THEN [found |-> FALSE, group |-> <<>>]
    ELSE IF MatchClassAt(s, i, ID_LENGTH)
         THEN [found |-> TRUE, group |-> SubSeq(s, i, i + ID_LENGTH - 1)]
         ELSE RegexMatchFrom(s, i + 1)

\* mutant of FallbackMatch: a scan that accepts only a token, exactly 11
\* characters of the class with no character of the class before or after
FallbackMatchToken(s) ==
    LET starts == {i \in 1..Len(s) :
                     /\ MatchClassAt(s, i, ID_LENGTH)
                     /\ (i > 1 => s[i - 1] \notin IdChars)
                     /\ (i + ID_LENGTH <= Len(s) => s[i + ID_LENGTH] \notin IdChars)}
    IN IF starts = {} THEN [found |-> FALSE, group |-> <<>>]
       ELSE LET i == CHOOSE k \in starts : \A j \in starts : k <= j
            IN [found |-> TRUE, group |-> SubSeq(s, i, i + ID_LENGTH - 1)]

FallbackMatch(s) == RegexMatchFrom(s, 1)

\* /^[a-zA-Z0-9_-]{11}$/.test(videoId)
IdPatternTest(s) == MatchClassAt(s, 1, ID_LENGTH) /\ Len(s) = ID_LENGTH

---------------------------------------------------------------------------
(* Literals of the extractor *)

\* "https://youtu.be/QiZ62yswdPw?si=IHWvSDSvLUQXqYpm" (line 178)
HARDCODED_URL == <<"h","t","t","p","s",":","/","/","y","o","u","t","u",".","b","e","/","Q","i","Z","6","2","y","s","w","d","P","w","?","s","i","=","I","H","W","v","S","D","S","v","L","U","Q","X","q","Y","p","m">>
\* "QiZ62yswdPw" (line 180)
HARDCODED_ID == <<"Q","i","Z","6","2","y","s","w","d","P","w">>
\* 'youtu.be/' (lines 187, 188)
YOUTU_BE == <<"y","o","u","t","u",".","b","e","/">>
\* 'youtube.com/watch' (line 195)
YT_WATCH == <<"y","o","u","t","u","b","e",".","c","o","m","/","w","a","t","c","h">>
\* 'youtube.com/v/' (lines 205, 206)
YT_V == <<"y","o","u","t","u","b","e",".","c","o","m","/","v","/">>
\* 'youtube.com/embed/' (lines 213, 214)
YT_EMBED == <<"y","o","u","t","u","b","e",".","c","o","m","/","e","m","b","e","d","/">>

---------------------------------------------------------------------------
(* new URL(url) and urlObj.searchParams.get('v') (lines 197, 198), after the  *)
(* URL Standard, for strings over the characters the inputs below are made  *)
(* of: letters, digits and - _ . / : ? # & = +. Such strings hold no         *)
(* credentials (@), no IPv6 literal ([), no percent escape and no white     *)
(* space, their scheme is in lower case, and no host ends in a number.      *)

AlphaChars == LowerChars \cup UpperChars
SchemeChars == AlphaChars \cup DigitChars \cup {"+", "-", "."}

\* the special schemes whose URLs need a host ("file" has rules of its own and
\* is not among the inputs)
SpecialSchemes == {<<"h","t","t","p">>, <<"h","t","t","p","s">>, <<"f","t","p">>,
                   <<"w","s">>, <<"w","s","s">>}

\* the text before the first character of D (all of s when there is none)
Before(s, D) == LET i == FirstIn(s, D) IN IF i = 0 THEN s ELSE SubSeq(s, 1, i - 1)
\* the text after the first character of D (empty when there is none)
After(s, D) == LET i == FirstIn(s, D) IN IF i = 0 THEN <<>> ELSE SubSeq(s, i + 1, Len(s))

\* s without its leading slashes
RECURSIVE StripSlashes(_)
StripSlashes(s) == IF s # <<>> /\ s[1] = "/" THEN StripSlashes(Tail(s)) ELSE s

DigitValue(c) == CHOOSE d \in 0..9 : <<"0","1","2","3","4","5","6","7","8","9">>[d + 1] = c

\* the numeric value of a string of digits, capped just above the largest port
RECURSIVE PortValue(_, _)
PortValue(s, acc) ==
    IF s = <<>> THEN acc
    ELSE PortValue(Tail(s), Min(65536, acc * 10 + DigitValue(s[1])))

\* new URL(s) with no base: [threw, query]; threw is the TypeError of an invalid URL
NewURL(s) ==
    LET colon == FirstIn(s, {":"})
        scheme == SubSeq(s, 1, colon - 1)
        schemeOk == /\ colon > 1
                    /\ s[1] \in AlphaChars
                    /\ \A i \in 2..(colon - 1) : s[i] \in SchemeChars
        rest == SubSeq(s, colon + 1, Len(s))
        noFragment == Before(rest, {"#"})
        hier == Before(noFragment, {"?"})
        query == After(noFragment, {"?"})
        special == scheme \in SpecialSchemes
        hasAuthority == special \/ (Len(hier) >= 2 /\ hier[1] = "/" /\ hier[2] = "/")
        afterSlashes == IF special THEN StripSlashes(hier) ELSE SubSeq(hier, 3, Len(hier))
        authority == Before(afterSlashes, {"/"})
        host == Before(authority, {":"})
        port == After(authority, {":"})
        hostOk == /\ special => host # <<>>
                  /\ (host = <<>>) => (FirstIn(authority, {":"}) = 0)
        portOk == /\ \A i \in 1..Len(port) : port[i] \in DigitChars
                  /\ PortValue(port, 0) <= 65535
    IN IF ~schemeOk THEN [threw |-> TRUE, query |-> <<>>]
       ELSE IF hasAuthority /\ ~(hostOk /\ portOk) THEN [threw |-> TRUE, query |-> <<>>]
       ELSE [threw |-> FALSE, query |-> query]

\* application/x-www-form-urlencoded decoding of one name or value: '+' is a space
PlusToSpace(s) == [i \in 1..Len(s) |-> IF s[i] = "+" THEN " " ELSE s[i]]

\* URLSearchParams.get(name) on a query string: [found, value] of the first pair
\* whose decoded name is name
RECURSIVE FirstPair(_, _)
FirstPair(pairs, name) ==
    IF pairs = <<>> THEN [found |-> FALSE, value |-> <<>>]
    ELSE LET p == Head(pairs)
         IN IF p # <<>> /\ PlusToSpace(Before(p, {"="})) = name
            THEN [found |-> TRUE, value |-> PlusToSpace(After(p, {"="}))]
            ELSE FirstPair(Tail(pairs), name)

SearchParamsGet(query, name) == FirstPair(SplitChars(query, {"&"}), name)

---------------------------------------------------------------------------
(* extractYouTubeVideoId (lines 168-239) *)

Return(v) == [threw |-> FALSE, value |-> v]

\* lines 188-192, 206-210, 214-218: the text after the marker, cut at ? # &
PathSegment(url, marker) ==
    LET parts == Split(url, marker)
    IN IF Len(parts) > 1 THEN Return(SplitChars(parts[2], Delimiters)[1]) ELSE Return(<<>>)

\* lines 196-202: the v parameter, '' when absent or when new URL throws
WatchParam(url) ==
    LET urlObj == NewURL(url)
    IN IF urlObj.threw THEN Return(<<>>)
       ELSE LET v == SearchParamsGet(urlObj.query, <<"v">>)
            IN IF v.found /\ v.value # <<>> THEN Return(v.value) ELSE Return(<<>>)

\* lines 221-227: the fallback scan
FallbackScan(url) ==
    LET match == FallbackMatch(url)
    IN IF match.found THEN Return(match.group) ELSE Return(<<>>)

\* lines 186-227: the dispatch over the URL's shape, first match wins
Dispatch(url) ==
    IF Includes(url, YOUTU_BE) THEN PathSegment(url, YOUTU_BE)
    ELSE IF Includes(url, YT_WATCH) THEN WatchParam(url)
    ELSE IF Includes(url, YT_V) THEN PathSegment(url, YT_V)
    ELSE IF Includes(url, YT_EMBED) THEN PathSegment(url, YT_EMBED)
    ELSE FallbackScan(url)

\* mutant of ValidationGate: the gate without its pattern test
ValidationGateUnchecked(candidate) == Return(candidate)

\* lines 232-238: the validation gate
ValidationGate(candidate) ==
    IF candidate # <<>> /\ IdPatternTest(candidate) THEN Return(candidate) ELSE Return(<<>>)

\* lines 168-239; url is a JavaScript value, the result is [threw, value]
extractYouTubeVideoId(url) ==
    IF Falsy(url) \/ url.t # "string" THEN Return(<<>>)
    ELSE IF url.v = HARDCODED_URL THEN Return(HARDCODED_ID)
    ELSE LET r == Dispatch(url.v)
             candidate == IF r.threw THEN <<>> ELSE r.value
         IN ValidationGate(candidate)

---------------------------------------------------------------------------
(* Content strings, run-length encoded: <<[c |-> character, n |-> count], ...>> *)
(* with n >= 1 and no two neighbouring runs of the same character. A         *)
(* character outside ASCII is named by its code point ("U+B2E4").            *)

Run(ch, count) == IF count <= 0 THEN <<>> ELSE <<[c |-> ch, n |-> count]>>

\* String.prototype.length
RECURSIVE LenR(_)
LenR(s) == IF s = <<>> THEN 0 ELSE s[1].n + LenR(Tail(s))

\* string concatenation (template literals of lines 76 and 112)
ConcatR(a, b) ==
    IF a = <<>> THEN b
    ELSE IF b = <<>> THEN a
    ELSE IF a[Len(a)].c = b[1].c
         THEN SubSeq(a, 1, Len(a) - 1)
              \o <<[c |-> b[1].c, n |-> a[Len(a)].n + b[1].n]>>
              \o Tail(b)
         ELSE a \o b

\* the content string of a sequence of characters
RECURSIVE FromChars(_)
FromChars(chars) ==
    IF chars = <<>> THEN <<>> ELSE ConcatR(Run(chars[1], 1), FromChars(Tail(chars)))

\* String.prototype.substring(0, k)
RECURSIVE Substring0(_, _)
Substring0(s, k) ==
    IF k <= 0 \/ s = <<>> THEN <<>>
    ELSE IF s[1].n <= k THEN <<s[1]>> \o Substring0(Tail(s), k - s[1].n)
    ELSE <<[c |-> s[1].c, n |-> k]>>

WhiteSpace == {" ", "\n", "\t", "\r"}

RECURSIVE TrimStart(_)
TrimStart(s) == IF s # <<>> /\ s[1].c \in WhiteSpace THEN TrimStart(Tail(s)) ELSE s

RECURSIVE TrimEnd(_)
TrimEnd(s) ==
    IF s # <<>> /\ s[Len(s)].c \in WhiteSpace THEN TrimEnd(SubSeq(s, 1, Len(s) - 1)) ELSE s

\* String.prototype.trim
Trim(s) == TrimEnd(TrimStart(s))

---------------------------------------------------------------------------
(* Literals of the handler *)

\* the limit of lines 95 and 97
MAX_TRANSCRIPT == 60000

\* userPrompts (lines 21-24) and the fallback prefix of line 112
userPrompts ==
    [ko |-> FromChars(<<"U+B2E4","U+C74C"," ","U+C790","U+B9C9","U+C744"," ","U+C774","U+C6A9","U+D574"," ","U+C720","U+D29C","U+BE0C"," ","U+B3D9","U+C601","U+C0C1","U+C744"," ","U+C694","U+C57D","U+D574","U+C8FC","U+C138","U+C694",":","\n","\n">>),
     en |-> FromChars(<<"P","l","e","a","s","e"," ","s","u","m","m","a","r","i","z","e"," ","t","h","i","s"," ","y","o","u","t","u","b","e"," ","v","i","d","e","o"," ","u","s","i","n","g"," ","t","h","e"," ","t","r","a","n","s","c","r","i","p","t",":","\n","\n">>)]
USER_PROMPT_FALLBACK ==
    FromChars(<<"P","l","e","a","s","e"," ","s","u","m","m","a","r","i","z","e"," ","t","h","i","s"," ","c","o","n","t","e","n","t",":"," ">>)

\* errorMessages (lines 26-37): the noTranscript entries, by name
errorMessages ==
    [ko |-> [noTranscript |-> "errorMessages.ko.noTranscript"],
     en |-> [noTranscript |-> "errorMessages.en.noTranscript"]]

\* line 51
EXTRACT_ERROR == "Could not extract a valid YouTube video ID from the provided URL."
\* line 126
SUMMARY_ERROR == "Failed to generate summary"
\* line 145
OPENAI_ERROR_PREFIX == "OpenAI failed: "

\* "[Video title: " and "]\n\n" of line 76
TITLE_OPEN == FromChars(<<"[","V","i","d","e","o"," ","t","i","t","l","e",":"," ">>)
TITLE_CLOSE == FromChars(<<"]","\n","\n">>)
\* what a template literal makes of undefined
UNDEFINED_TEXT == FromChars(<<"u","n","d","e","f","i","n","e","d">>)

---------------------------------------------------------------------------
(* The handler's lookups and helpers *)

\* locale values: [t |-> type, v |-> text]
LStr(s) == [t |-> "string", v |-> s]
LUndefined == [t |-> "undefined", v |-> ""]
LNull == [t |-> "null", v |-> ""]

\* the property key a value is converted to in table[locale]
PropertyKey(loc) == IF loc.t = "string" THEN loc.v ELSE loc.t

\* an absent / present member of a response of the metadata API
Absent == [present |-> FALSE, text |-> <<>>]
Present(s) == [present |-> TRUE, text |-> s]

\* line 41: locale = 'ko' applies when the member is undefined (absent) only
DefaultLocale(loc) == IF loc.t = "undefined" THEN LStr("ko") ELSE loc

\* line 112: userPrompts[locale] || "Please summarize this content: "
UserPromptFor(loc) ==
    IF PropertyKey(loc) \in DOMAIN userPrompts
    THEN userPrompts[PropertyKey(loc)] ELSE USER_PROMPT_FALLBACK

\* line 89: errorMessages[locale].noTranscript; reading .noTranscript of
\* undefined throws a TypeError
NoTranscriptFor(loc) ==
    IF PropertyKey(loc) \in DOMAIN errorMessages
    THEN [threw |-> FALSE, value |-> errorMessages[PropertyKey(loc)].noTranscript]
    ELSE [threw |-> TRUE, value |-> "Cannot read properties of undefined (reading 'noTranscript')"]

\* a JSON response
Response(status, content) ==
    [status |-> status, contentType |-> "application/json", body |-> content]

\* what a step of the handler ends in
Responded(r) == [responded |-> TRUE, response |-> r, escaped |-> FALSE]

\* mutant of ExtractFailure: the answer without the echo of the received URL
ExtractFailureNoEcho(url) == Responded(Response(400, [error |-> EXTRACT_ERROR]))

\* lines 49-55: JSON.stringify leaves out a member whose value is undefined
ExtractFailure(url) ==
    Responded(Response(400,
        IF url.t = "undefined" THEN [error |-> EXTRACT_ERROR]
        ELSE [error |-> EXTRACT_ERROR, receivedUrl |-> url]))

\* lines 88-91
NoTranscript(message) == Responded(Response(400, [error |-> message]))

\* mutant of HandlerCatch: an outer catch that rethrows
HandlerCatchRethrow(message) ==
    [responded |-> FALSE,
     response |-> Response(500, [error |-> message]),
     escaped |-> TRUE]

\* lines 153-164: the outer catch
HandlerCatch(message) ==
    Responded(Response(500,
        [error |-> IF message = "" THEN "An unexpected error occurred" ELSE message]))

\* lines 74-80 with the catch of lines 81-83: the transcript text a settled
\* metadata call leaves
TranscriptFrom(outcome) ==
    IF outcome.kind \in {"rejected", "noData", "noItems"} THEN <<>>
    ELSE IF outcome.kind \in {"emptyItems", "noSnippet"} THEN <<>>
    ELSE IF outcome.description.present /\ outcome.description.text # <<>>
         THEN ConcatR(ConcatR(ConcatR(TITLE_OPEN,
                  IF outcome.title.present THEN outcome.title.text ELSE UNDEFINED_TEXT),
                  TITLE_CLOSE), outcome.description.text)
         ELSE <<>>

\* mutant of Truncate: a cut one character short
TruncateOffByOne(text) ==
    IF LenR(text) > MAX_TRANSCRIPT THEN Substring0(text, MAX_TRANSCRIPT - 1) ELSE text

\* lines 95-98
Truncate(text) ==
    IF LenR(text) > MAX_TRANSCRIPT THEN Substring0(text, MAX_TRANSCRIPT) ELSE text

\* line 86
IsBlank(text) == Trim(text) = <<>>

\* mutant of OpenAIResult: the completion accepted without the check of line 124
OpenAIResultUnchecked(outcome) ==
    IF outcome.kind = "rejected"
    THEN Responded(Response(500, [error |-> OPENAI_ERROR_PREFIX \o outcome.message]))
    ELSE Responded(Response(200, [summary |-> outcome.content]))

\* mutant of IssueCall: a call wrapped in one retry
IssueCallWithRetry(log, api) == log \o <<api, api>>

\* lines 64-72 and 116-121: an outbound call is issued (once) and awaited
IssueCall(log, api) == Append(log, api)

\* lines 124-151: the response to a settled language-model call
OpenAIResult(outcome) ==
    IF outcome.kind = "rejected"
    THEN Responded(Response(500, [error |-> OPENAI_ERROR_PREFIX \o outcome.message]))
    ELSE IF outcome.kind = "content" /\ outcome.content # ""
    THEN Responded(Response(200, [summary |-> outcome.content]))
    ELSE Responded(Response(500, [error |-> SUMMARY_ERROR]))

---------------------------------------------------------------------------
(* Bounds and inputs *)

\* the number of pieces a generated URL is made of, after its prefix
MaxPieces == 3
\* how far around the limit the generated description lengths reach
MaxPad == 1

RECURSIVE Flatten(_)
Flatten(ss) == IF ss = <<>> THEN <<>> ELSE ss[1] \o Flatten(Tail(ss))

UrlPrefixes ==
    {<<>>,
     <<"h","t","t","p","s",":","/","/">>,
     <<"h","t","t","p","s",":","/","/","w","w","w",".">>,
     <<"w","w","w",".">>}

UrlPieces ==
    {YOUTU_BE, YT_WATCH, YT_V, YT_EMBED,
     <<"?","v","=">>,
     <<"d","Q","w","4","w","9","W","g","X","c","Q">>,
     <<"a","b","c">>,
     <<"&","t","=","1">>,
     <<"?">>, <<"#">>, <<"/">>, <<"+">>}

\* "https://www.youtube.com/watch?v=dQw4w9WgXcQ&t=10s"
SCENARIO2_URL == <<"h","t","t","p","s",":","/","/","w","w","w",".","y","o","u","t","u","b","e",".","c","o","m","/","w","a","t","c","h","?","v","=","d","Q","w","4","w","9","W","g","X","c","Q","&","t","=","1","0","s">>

GeneratedUrls ==
    {p \o Flatten(ps) : p \in UrlPrefixes,
                        ps \in UNION {[1..k -> UrlPieces] : k \in 0..MaxPieces}}

\* the values the extractor is applied to
ExtractInputs ==
    {Undefined, Null, Num(<<"0">>), Num(<<"4","2">>), Str(HARDCODED_URL), Str(SCENARIO2_URL)}
    \cup {Str(u) : u \in GeneratedUrls}

\* the videoUrl members of the requests the handler is given
RequestUrls ==
    {Undefined, Null, Num(<<"4","2">>), Str(<<>>), Str(HARDCODED_URL), Str(SCENARIO2_URL),
     Str(<<"n","o","t"," ","a"," ","u","r","l">>),
     Str(<<"w","w","w",".">> \o YT_WATCH \o <<"?","v","=","d","Q","w","4","w","9","W","g","X","c","Q">>),
     Str(<<"h","t","t","p","s",":","/","/">> \o YT_EMBED \o <<"d","Q","w","4","w","9","W","g","X","c","Q","?","a","=","b">>),
     Str(<<"d","Q","w","4","w","9","W","g","X","c","Q">>)}

RequestLocales == {LUndefined, LNull, LStr("ko"), LStr("en"), LStr("fr")}

\* what req.json() yields: a rejection, null, or an object with its members
Bodies ==
    {[kind |-> "unparseable", videoUrl |-> Undefined, locale |-> LUndefined],
     [kind |-> "null", videoUrl |-> Undefined, locale |-> LUndefined]}
    \cup {[kind |-> "object", videoUrl |-> u, locale |-> l] :
            u \in RequestUrls, l \in RequestLocales}

Titles == {Absent, Present(Run("T", 3))}

\* description lengths that put the content source just below, at and just
\* above the limit (the text before an absent title's description is 26 long)
DescriptionLengths ==
    {1, MAX_TRANSCRIPT + 10000 - 26}
    \cup {MAX_TRANSCRIPT - 26 + d : d \in (0 - MaxPad)..MaxPad}

Descriptions ==
    {Absent, Present(<<>>), Present(Run(" ", 2))}
    \cup {Present(ConcatR(Run("x", a), Run("y", b))) :
            a \in DescriptionLengths, b \in 0..MaxPad}

\* how the metadata call can end: rejected, or resolved with a body that lacks
\* data, items, a first item, its snippet, or holds a snippet
MetadataOutcomes ==
    {[kind |-> k, title |-> Absent, description |-> Absent] :
        k \in {"rejected", "noData", "noItems", "emptyItems", "noSnippet"}}
    \cup {[kind |-> "snippet", title |-> t, description |-> d] :
            t \in Titles, d \in Descriptions}

\* how the language-model call can end
OpenAIOutcomes ==
    {[kind |-> "rejected", message |-> m, content |-> ""] :
        m \in {"Request timed out.", "429 Rate limit exceeded"}}
    \cup {[kind |-> k, message |-> "", content |-> ""] :
            k \in {"nullCompletion", "emptyChoices", "noMessage", "nullContent"}}
    \cup {[kind |-> "content", message |-> "", content |-> c] : c \in {"", "A summary."}}

NoOutcome == [kind |-> "none", title |-> Absent, description |-> Absent]
NoCompletion == [kind |-> "none", message |-> "", content |-> ""]

---------------------------------------------------------------------------
(* The handler POST (lines 39-165) *)

Init ==
    /\ pc = "start"
    /\ body \in Bodies
    /\ videoUrl = Undefined
    /\ locale = LUndefined
    /\ videoId = Return(<<>>)
    /\ contentSource = <<>>
    /\ transcriptText = <<>>
    /\ userContent = <<>>
    /\ calls = <<>>
    /\ metaOutcome = NoOutcome
    /\ llmOutcome = NoCompletion
    /\ responses = <<>>
    /\ escaped = FALSE

\* the handler returns (or an exception leaves it)
Finish(out) ==
    /\ pc' = "done"
    /\ responses' = IF out.responded THEN Append(responses, out.response) ELSE responses
    /\ escaped' = out.escaped

\* lines 41-72: req.json() settles; the handler destructures the body, extracts
\* the identifier and either responds or issues the metadata call
JsonSettled ==
    /\ pc = "start"
    /\ IF body.kind = "unparseable"
       THEN /\ Finish(HandlerCatch("Unexpected token in JSON"))
            /\ UNCHANGED <<videoUrl, locale, videoId, calls>>
       ELSE IF body.kind = "null"
       THEN /\ Finish(HandlerCatch("Cannot destructure property 'videoUrl' of null"))
            /\ UNCHANGED <<videoUrl, locale, videoId, calls>>
       ELSE LET id == extractYouTubeVideoId(body.videoUrl)
            IN /\ videoUrl' = body.videoUrl
               /\ locale' = DefaultLocale(body.locale)
               /\ videoId' = id
               /\ IF id.threw
                  THEN Finish(HandlerCatch("extractYouTubeVideoId threw")) /\ UNCHANGED calls
                  ELSE IF id.value = <<>>
                  THEN Finish(ExtractFailure(body.videoUrl)) /\ UNCHANGED calls
                  ELSE /\ calls' = IssueCall(calls, "youtube")
                       /\ pc' = "awaitMetadata"
                       /\ UNCHANGED <<responses, escaped>>
    /\ UNCHANGED <<body, contentSource, transcriptText, userContent, metaOutcome, llmOutcome>>

\* lines 64-121: the metadata call settles; the handler builds the transcript
\* text and either responds "no transcript" or issues the language-model call
MetadataSettled ==
    /\ pc = "awaitMetadata"
    /\ \E outcome \in MetadataOutcomes :
        LET text == TranscriptFrom(outcome)
        IN /\ metaOutcome' = outcome
           /\ contentSource' = text
           /\ IF IsBlank(text)
              THEN /\ transcriptText' = text
                   /\ LET m == NoTranscriptFor(locale)
                      IN IF m.threw THEN Finish(HandlerCatch(m.value))
                         ELSE Finish(NoTranscript(m.value))
                   /\ UNCHANGED <<userContent, calls>>
              ELSE /\ transcriptText' = Truncate(text)
                   /\ userContent' = ConcatR(UserPromptFor(locale), Truncate(text))
                   /\ calls' = IssueCall(calls, "openai")
                   /\ pc' = "awaitOpenAI"
                   /\ UNCHANGED <<responses, escaped>>
    /\ UNCHANGED <<body, videoUrl, locale, videoId, llmOutcome>>

\* lines 116-151: the language-model call settles and the handler responds
OpenAISettled ==
    /\ pc = "awaitOpenAI"
    /\ \E outcome \in OpenAIOutcomes :
        /\ llmOutcome' = outcome
        /\ Finish(OpenAIResult(outcome))
    /\ UNCHANGED <<body, videoUrl, locale, videoId, contentSource, transcriptText,
                   userContent, calls, metaOutcome>>

Next == JsonSettled \/ MetadataSettled \/ OpenAISettled

Spec == Init /\ [][Next]_vars

---------------------------------------------------------------------------
(* The extractor on its own: applied once to each input *)

InitExtract ==
    /\ pc = "extract"
    /\ body = [kind |-> "none", videoUrl |-> Undefined, locale |-> LUndefined]
    /\ videoUrl \in ExtractInputs
    /\ locale = LUndefined
    /\ videoId = Return(<<>>)
    /\ contentSource = <<>>
    /\ transcriptText = <<>>
    /\ userContent = <<>>
    /\ calls = <<>>
    /\ metaOutcome = NoOutcome
    /\ llmOutcome = NoCompletion
    /\ responses = <<>>
    /\ escaped = FALSE

CallExtract ==
    /\ pc = "extract"
    /\ videoId' = extractYouTubeVideoId(videoUrl)
    /\ pc' = "returned"
    /\ UNCHANGED <<body, videoUrl, locale, contentSource, transcriptText, userContent,
                   calls, metaOutcome, llmOutcome, responses, escaped>>

NextExtract == CallExtract

SpecExtract == InitExtract /\ [][NextExtract]_vars

---------------------------------------------------------------------------
(* Properties *)

\* a string that fully matches ^[A-Za-z0-9_-]{11}$
WellFormedId(v) == Len(v) = ID_LENGTH /\ \A i \in 1..Len(v) : v[i] \in IdChars

\* s contains one of the four markers the dispatch looks for
HasMarker(s) ==
    \/ Includes(s, YOUTU_BE) \/ Includes(s, YT_WATCH)
    \/ Includes(s, YT_V) \/ Includes(s, YT_EMBED)

\* the four recognized shapes, up to the identifier
ShapeMarkers == {YOUTU_BE, YT_WATCH \o <<"?","v","=">>, YT_V, YT_EMBED}

\* the identifiers s shows in a recognized shape: 11 characters of the class
\* right after a shape's marker, followed by the end of s or by ? & #
ShapeIds(s) ==
    {id \in {SubSeq(s, j, j + ID_LENGTH - 1) : j \in 1..(Len(s) - ID_LENGTH + 1)} :
        /\ WellFormedId(id)
        /\ \E m \in ShapeMarkers : \E i \in 1..(Len(s) - Len(m) - ID_LENGTH + 1) :
              /\ SubSeq(s, i, i + Len(m) + ID_LENGTH - 1) = m \o id
              /\ \/ i + Len(m) + ID_LENGTH > Len(s)
                 \/ s[i + Len(m) + ID_LENGTH] \in Delimiters}

\* the extractor was applied and returned
Returned == pc = "returned"

\* C1: a string that shows an identifier in one of the four recognized shapes,
\* whatever follows the identifier after ? & or #, is mapped to that identifier.
C1_RecognizedShapeYieldsId ==
    (Returned /\ videoUrl.t = "string") =>
        \A id \in ShapeIds(videoUrl.v) : ~videoId.threw /\ videoId.value = id

\* C2: for every input the extractor returns without raising, and its result is
\* either the empty "no identifier" value or matches ^[A-Za-z0-9_-]{11}$.
C2_ResultEmptyOrWellFormed ==
    Returned => /\ ~videoId.threw
                /\ (videoId.value = <<>> \/ WellFormedId(videoId.value))

\* C2 witness: the validation gate has rejected the non-empty candidate that
\* the youtube.com/embed/ branch took from the string
C2_Witness ==
    /\ Returned
    /\ videoUrl.t = "string"
    /\ Includes(videoUrl.v, YT_EMBED)
    /\ ~Includes(videoUrl.v, YOUTU_BE)
    /\ ~Includes(videoUrl.v, YT_WATCH)
    /\ ~Includes(videoUrl.v, YT_V)
    /\ PathSegment(videoUrl.v, YT_EMBED).value # <<>>
    /\ videoId.value = <<>>

\* the start positions of the windows of 11 characters of the class in s
ValidWindows(s) ==
    {i \in 1..(Len(s) - ID_LENGTH + 1) : \A k \in i..(i + ID_LENGTH - 1) : s[k] \in IdChars}

\* C3: for a non-empty string without any of the four markers, the result is the
\* leftmost 11 contiguous characters of the class, and empty when there are none.
C3_FallbackLeftmostWindow ==
    (Returned /\ videoUrl.t = "string" /\ videoUrl.v # <<>> /\ ~HasMarker(videoUrl.v)) =>
        LET W == ValidWindows(videoUrl.v)
        IN IF W = {} THEN videoId.value = <<>>
           ELSE \E i \in W : /\ \A j \in W : i <= j
                             /\ videoId.value = SubSeq(videoUrl.v, i, i + ID_LENGTH - 1)

\* C3 witness: a marker-free string whose first run of class characters is longer
\* than 11, so the identifier is the run's first 11 characters
C3_Witness ==
    /\ Returned
    /\ videoUrl.t = "string"
    /\ ~HasMarker(videoUrl.v)
    /\ Cardinality(ValidWindows(videoUrl.v)) > 1
    /\ videoId.value # <<>>

\* the handler has returned
Done == pc = "done"

\* the extractor ran on the request's videoUrl and gave no identifier
NoIdentifier == Done /\ body.kind = "object" /\ ~videoId.threw /\ videoId.value = <<>>

\* the only response of a finished handler
TheResponse == responses[1]

\* C4 as stated: no identifier means 400 with an error message and a receivedUrl
\* member equal to the received videoUrl, and no outbound call.
C4_Original ==
    NoIdentifier =>
        /\ Len(responses) = 1
        /\ TheResponse.status = 400
        /\ "error" \in DOMAIN TheResponse.body
        /\ "receivedUrl" \in DOMAIN TheResponse.body
        /\ TheResponse.body.receivedUrl = videoUrl
        /\ calls = <<>>

\* C4 amended: no identifier means 400 with the error message and no outbound
\* call; the body has a receivedUrl member equal to the received videoUrl when the
\* request had a videoUrl member, and no receivedUrl member when it had none.
C4_ExtractFailureIs400 ==
    NoIdentifier =>
        /\ Len(responses) = 1
        /\ TheResponse.status = 400
        /\ "error" \in DOMAIN TheResponse.body
        /\ TheResponse.body.error = EXTRACT_ERROR
        /\ IF body.videoUrl.t = "undefined"
           THEN "receivedUrl" \notin DOMAIN TheResponse.body
           ELSE /\ "receivedUrl" \in DOMAIN TheResponse.body
                /\ TheResponse.body.receivedUrl = body.videoUrl
        /\ calls = <<>>

\* C4 witness: the empty videoUrl of scenario 3 was answered
C4_Witness == NoIdentifier /\ body.videoUrl = Str(<<>>) /\ Len(responses) = 1

\* the metadata call settled without a usable description
NoUsableDescription ==
    /\ metaOutcome.kind # "none"
    /\ \/ metaOutcome.kind # "snippet"
       \/ ~metaOutcome.description.present
       \/ metaOutcome.description.text = <<>>

\* C5: for any locale, a metadata call that fails or yields no usable description
\* ends in 400 with the locale's "no transcript" message, never in 500, and the
\* language-model call is not made.
C5_NoContentIs400 ==
    (Done /\ NoUsableDescription) =>
        /\ Len(responses) = 1
        /\ TheResponse.status = 400
        /\ TheResponse.body.error \in {errorMessages[k].noTranscript : k \in DOMAIN errorMessages}
        /\ calls = <<"youtube">>

\* C6: a body that req.json() cannot parse ends in 400 with an error message and
\* no outbound call.
C6_MalformedBodyIs400 ==
    (Done /\ body.kind = "unparseable") =>
        /\ Len(responses) = 1
        /\ TheResponse.status = 400
        /\ "error" \in DOMAIN TheResponse.body
        /\ calls = <<>>

\* the language-model call was issued and has settled
OpenAIReached == Done /\ llmOutcome.kind # "none"

\* C7: once the language-model call is reached, its outcome alone decides the
\* response: a failure gives 500 with the failure's description embedded, a
\* completion without text gives 500 "Failed to generate summary", and a
\* completion with text gives 200 with that text as summary.
C7_OpenAIOutcomeDecides ==
    OpenAIReached =>
        /\ Len(responses) = 1
        /\ llmOutcome.kind = "rejected" =>
              /\ TheResponse.status = 500
              /\ TheResponse.body = [error |-> "OpenAI failed: " \o llmOutcome.message]
        /\ (llmOutcome.kind # "rejected" /\ (llmOutcome.kind # "content" \/ llmOutcome.content = "")) =>
              /\ TheResponse.status = 500
              /\ TheResponse.body = [error |-> "Failed to generate summary"]
        /\ (llmOutcome.kind = "content" /\ llmOutcome.content # "") =>
              /\ TheResponse.status = 200
              /\ TheResponse.body = [summary |-> llmOutcome.content]

\* C7 witness: the completion of scenario 6, without text content, was answered
C7_Witness == OpenAIReached /\ llmOutcome.kind = "nullContent" /\ TheResponse.status = 500

\* C8: the outbound calls are sequential and never retried: the metadata call at
\* most once and only after a successful extraction, the language-model call at
\* most once and only after the metadata call settled with non-blank content, and
\* no call once a call failed without content or a response was produced.
C8_CallsSequentialOnce ==
    /\ [](/\ calls \in {<<>>, <<"youtube">>, <<"youtube", "openai">>}
          /\ calls # <<>> => (~videoId.threw /\ WellFormedId(videoId.value))
          /\ Len(calls) = 2 => (metaOutcome.kind = "snippet" /\ ~IsBlank(contentSource))
          /\ (metaOutcome.kind = "none" /\ responses = <<>>) => Len(calls) <= 1)
    /\ [][(responses # <<>> \/ escaped) => calls' = calls]_vars
    /\ [][(metaOutcome' # metaOutcome /\ NoUsableDescription') => calls' = calls]_vars
    /\ [][llmOutcome' # llmOutcome => calls' = calls]_vars

\* C8 witness: both calls were issued, the second failed, and the handler answered
C8_Witness ==
    /\ Done
    /\ calls = <<"youtube", "openai">>
    /\ llmOutcome.kind = "rejected"
    /\ Len(responses) = 1

\* s without its first k characters
RECURSIVE DropR(_, _)
DropR(s, k) ==
    IF k <= 0 \/ s = <<>> THEN s
    ELSE IF s[1].n <= k THEN DropR(Tail(s), k - s[1].n)
    ELSE <<[c |-> s[1].c, n |-> s[1].n - k]>> \o Tail(s)

\* a is a prefix of b
IsPrefixR(a, b) ==
    \/ a = <<>>
    \/ /\ Len(a) <= Len(b)
       /\ \A i \in 1..(Len(a) - 1) : a[i] = b[i]
       /\ a[Len(a)].c = b[Len(a)].c
       /\ a[Len(a)].n <= b[Len(a)].n

\* the text that follows the locale's prefix in the user message
SentText == DropR(userContent, LenR(UserPromptFor(locale)))

\* C9: the text sent after the user-prompt prefix is a prefix of the content
\* source, of length min(length of the content source, 60000).
C9_SentTextIsTruncatedPrefix ==
    Len(calls) = 2 =>
        /\ IsPrefixR(SentText, contentSource)
        /\ LenR(SentText) = Min(LenR(contentSource), 60000)
        /\ LenR(SentText) <= 60000
        /\ LenR(contentSource) <= 60000 => SentText = contentSource
        /\ IsPrefixR(UserPromptFor(locale), userContent)

\* C9 witness: the 70000-character content source of scenario 5 was sent as 60000
C9_Witness ==
    /\ Len(calls) = 2
    /\ LenR(contentSource) = 70000
    /\ LenR(SentText) = 60000

\* C10: a finished handler has produced exactly one response, with status 200,
\* 400 or 500, and no exception has left it; before that it has produced none;
\* 200 only after a well-formed identifier, a metadata call that resolved with
\* a non-empty description, and a completion with non-empty text.
C10_OneResponse ==
    /\ ~escaped
    /\ ~Done => responses = <<>>
    /\ Done =>
          /\ Len(responses) = 1
          /\ TheResponse.status \in {200, 400, 500}
          /\ TheResponse.status = 200 =>
                /\ ~videoId.threw /\ WellFormedId(videoId.value)
                /\ metaOutcome.kind = "snippet"
                /\ metaOutcome.description.present
                /\ metaOutcome.description.text # <<>>
                /\ llmOutcome.kind = "content"
                /\ llmOutcome.content # ""

\* C10 witness: a request was answered with 200
C10_Witness == Done /\ Len(responses) = 1 /\ TheResponse.status = 200

====
